---- MODULE Spec2Model ----
(***************************************************************************)
(* Model of vertexai/genai/content.go: the streaming response iterator     *)
(* (GenerateContentResponseIterator.Next), the single-shot driver          *)
(* (GenerativeModel.generateContent), the chunk decoder (protoToResponse)  *)
(* and the merge engine (joinResponses, joinCandidateLists, joinContent,   *)
(* joinParts, mergeTexts, joinCitationMetadata).                           *)
(*                                                                         *)
(* Go pointers are modelled as references into a heap: a response, a       *)
(* candidate, a Content and a CitationMetadata are objects, and the merge  *)
(* mutates them in place exactly where the Go code assigns through a       *)
(* pointer.  A reference is a tuple; the nil pointer is the empty tuple.   *)
(***************************************************************************)
EXTENDS Naturals, Sequences, FiniteSets, TLC

VARIABLES
  mode,      \* "stream": the caller polls Next; "single": generateContent drives it
  cs,        \* iter.cs # nil: the iterator is bound to a ChatSession
  sc,        \* iter.sc: "client" or "nil" (opening the stream failed)
  err,       \* iter.err
  merged,    \* iter.merged: reference to a response object, or NilRef
  resp,      \* heap of GenerateContentResponse objects
  cand,      \* heap of Candidate objects
  content,   \* heap of Content objects
  cite,      \* heap of CitationMetadata objects
  ret,       \* what the last call of Next returned: [resp, err]
  gc,        \* what generateContent returned, once it has
  panicked,  \* a nil dereference aborted the goroutine inside Next
  history,   \* what cs.addToHistory has been handed, in order
  nrecv,     \* number of calls of iter.sc.Recv so far
  post,      \* number of calls of Next made with iter.err already set
  recvd,     \* what the last call of iter.sc.Recv yielded
  hist,      \* the responses Next has returned, as decoded, in order
  nmerge,    \* number of calls of joinResponses so far
  jin,       \* pure-function harness: the arguments
  jout       \* pure-function harness: the result

vars == <<mode, cs, sc, err, merged, resp, cand, content, cite, ret, gc,
          panicked, history, nrecv, post, recvd, hist, nmerge, jin, jout>>

-----------------------------------------------------------------------------
(* Bounds *)

MaxChunks == 3     \* chunks one stream delivers before it must end or fail
MaxPost == 2       \* polls made after the iterator has become terminal
MaxParts == 2      \* length of the part lists the pure-function harness draws

-----------------------------------------------------------------------------
(* Values *)

NilRef == <<>>
NilVal == [nil |-> TRUE]

NoErr == [kind |-> "nil"]
EOF == [kind |-> "io.EOF"]
Done == [kind |-> "iterator.Done"]
ErrUnavailable == [kind |-> "transport", msg |-> "unavailable"]
ErrCanceled == [kind |-> "transport", msg |-> "canceled"]
ErrOpen == [kind |-> "transport", msg |-> "open failed"]

FinishReasonStop == "STOP"
FinishReasonMaxTokens == "MAX_TOKENS"
FinishReasonSafety == "SAFETY"

Text(s) == [kind |-> "Text", text |-> s]
Blob(m, d) == [kind |-> "Blob", MIMEType |-> m, Data |-> d]
FileData(m, u) == [kind |-> "FileData", MIMEType |-> m, FileURI |-> u]

IsText(p) == p.kind = "Text"

BlockedError(c, pf, k) ==
  [kind |-> "BlockedError", Candidate |-> c, PromptFeedback |-> pf, at |-> k]

-----------------------------------------------------------------------------
(* mergeTexts, joinParts *)

RECURSIVE stringsJoin(_)
stringsJoin(texts) ==
  IF texts = <<>> THEN "" ELSE Head(texts) \o stringsJoin(Tail(texts))

\* the inner loop, were it to skip a part that is not a Text instead of
\* stopping at it
RECURSIVE scanTextsNoBreak(_, _, _)
scanTextsNoBreak(in, j, texts) ==
  IF j <= Len(in)
    THEN scanTextsNoBreak(in, j + 1,
                          IF IsText(in[j]) THEN Append(texts, in[j].text)
                          ELSE texts)
    ELSE [texts |-> texts, j |-> j]

\* the inner loop of mergeTexts: from j, append the texts of the Text parts
\* until the first part that is not a Text; yields the texts and the final j
RECURSIVE scanTexts(_, _, _)
scanTexts(in, j, texts) ==
  IF j <= Len(in) /\ IsText(in[j])
    THEN scanTexts(in, j + 1, Append(texts, in[j].text))
    ELSE [texts |-> texts, j |-> j]

\* the outer loop of mergeTexts from i; mergeRun appends the Text made of
\* the run r that scanTexts found and goes on after it
RECURSIVE mergeLoop(_, _, _)
RECURSIVE mergeRun(_, _, _)
mergeRun(in, r, out) ==
  mergeLoop(in, r.j, Append(out, Text(stringsJoin(r.texts))))

mergeLoop(in, i, out) ==
  IF i > Len(in) THEN out
  ELSE IF IsText(in[i])
    THEN mergeRun(in, scanTexts(in, i + 1, <<in[i].text>>), out)
    ELSE mergeLoop(in, i + 1, Append(out, in[i]))

mergeTexts(in) == mergeLoop(in, 1, <<>>)

\* joinParts, were it to forget mergeTexts
joinPartsNoMerge(dest, src) == dest \o src

\* joinParts, were it to append dest to src
joinPartsSwapped(dest, src) == mergeTexts(src \o dest)

joinParts(dest, src) == mergeTexts(dest \o src)

-----------------------------------------------------------------------------
(* The heap.  h is a record of the four object heaps; an operation that    *)
(* mutates through a pointer yields the new heap.  An operation that can   *)
(* dereference nil yields panic = TRUE and the heap as it was when the     *)
(* dereference happened.                                                   *)

Heap(r, c, ct, cm) == [resp |-> r, cand |-> c, content |-> ct, cite |-> cm]

\* joinCitationMetadata(dest, src) on references: the reference returned and
\* the heap after dest.Citations = append(dest.Citations, src.Citations...)
joinCitationMetadata(h, dest, src) ==
  IF dest = NilRef THEN [h |-> h, ptr |-> src]
  ELSE IF src = NilRef THEN [h |-> h, ptr |-> dest]
  ELSE [h |-> [h EXCEPT !.cite[dest].Citations =
                             h.cite[dest].Citations \o h.cite[src].Citations],
        ptr |-> dest]

\* joinContent(dest, src) on references; src.Parts with src = nil panics
joinContent(h, dest, src) ==
  IF dest = NilRef THEN [h |-> h, ptr |-> src, panic |-> FALSE]
  ELSE IF src = NilRef THEN [h |-> h, ptr |-> dest, panic |-> TRUE]
  ELSE [h |-> [h EXCEPT !.content[dest].Parts =
                  joinParts(h.content[dest].Parts, h.content[src].Parts)],
        ptr |-> dest, panic |-> FALSE]

\* the first loop, were an earlier entry of src to win over a later one of
\* the same index
indexToSrcCandidateFirst(h, src) ==
  [i \in {h.cand[src[n]].Index : n \in 1..Len(src)} |->
     LET n == CHOOSE n \in 1..Len(src) :
                /\ h.cand[src[n]].Index = i
                /\ \A n2 \in 1..(n - 1) : h.cand[src[n2]].Index # i
     IN src[n]]

\* the first loop of joinCandidateLists: the map from index to the source
\* candidate, a later entry of src overwriting an earlier one of the same index
indexToSrcCandidate(h, src) ==
  [i \in {h.cand[src[n]].Index : n \in 1..Len(src)} |->
     LET n == CHOOSE n \in 1..Len(src) :
                /\ h.cand[src[n]].Index = i
                /\ \A n2 \in (n + 1)..Len(src) : h.cand[src[n2]].Index # i
     IN src[n]]

\* the lookup, were it to fall back on some entry of the map for a missing key
lookupAny(m, i) ==
  IF i \in DOMAIN m THEN m[i]
  ELSE IF DOMAIN m = {} THEN NilRef
  ELSE m[CHOOSE j \in DOMAIN m : TRUE]

\* s := indexToSrcCandidate[d.Index], nil when the map has no such key
lookup(m, i) == IF i \in DOMAIN m THEN m[i] ELSE NilRef

\* d.Content = <ptr>; d.FinishReason = s.FinishReason;
\* d.SafetyRatings = s.SafetyRatings
assignJoined(h, d, s, ptr) ==
  [h EXCEPT !.cand[d].Content = ptr,
            !.cand[d].FinishReason = h.cand[s].FinishReason,
            !.cand[d].SafetyRatings = h.cand[s].SafetyRatings]

\* d.CitationMetadata = <jm>, jm what joinCitationMetadata yielded
assignCitations(d, jm) ==
  [h |-> [jm.h EXCEPT !.cand[d].CitationMetadata = jm.ptr], panic |-> FALSE]

\* d.CitationMetadata = joinCitationMetadata(d.CitationMetadata, s.CitationMetadata)
joinCitationsOf(h, d, s) ==
  assignCitations(d, joinCitationMetadata(h, h.cand[d].CitationMetadata,
                                          h.cand[s].CitationMetadata))

\* the statements after joinContent, jc what it yielded; a panic inside
\* joinContent leaves d as it was
afterJoinContent(h, d, s, jc) ==
  IF jc.panic THEN [h |-> h, panic |-> TRUE]
  ELSE joinCitationsOf(assignJoined(jc.h, d, s, jc.ptr), d, s)

\* the body of the second loop of joinCandidateLists for one d with s # nil
joinCandidate(h, d, s) ==
  afterJoinContent(h, d, s, joinContent(h, h.cand[d].Content, h.cand[s].Content))

\* the second loop of joinCandidateLists, from position j of dest:
\* joinLoopAt looks s up, joinLoopAfter goes on unless the body panicked
RECURSIVE joinLoop(_, _, _, _)
RECURSIVE joinLoopAt(_, _, _, _, _)
RECURSIVE joinLoopAfter(_, _, _, _)
joinLoopAfter(r, dest, j, m) ==
  IF r.panic THEN r ELSE joinLoop(r.h, dest, j + 1, m)

joinLoopAt(h, dest, j, m, s) ==
  IF s = NilRef THEN joinLoop(h, dest, j + 1, m)
  ELSE joinLoopAfter(joinCandidate(h, dest[j], s), dest, j, m)

joinLoop(h, dest, j, m) ==
  IF j > Len(dest) THEN [h |-> h, panic |-> FALSE]
  ELSE joinLoopAt(h, dest, j, m, lookup(m, h.cand[dest[j]].Index))

\* return dest
returnDest(r, dest) == [h |-> r.h, ptr |-> dest, panic |-> r.panic]

\* joinCandidateLists, were it to append the candidates of src to dest
joinCandidateListsAppend(h, dest, src) ==
  [h |-> h, ptr |-> dest \o src, panic |-> FALSE]

\* joinCandidateLists(dest, src) on slices of references; it returns dest
joinCandidateLists(h, dest, src) ==
  returnDest(joinLoop(h, dest, 1, indexToSrcCandidate(h, src)), dest)

\* dest.Candidates = <r>; return dest
assignCandidates(r, dest) ==
  [h |-> [r.h EXCEPT !.resp[dest].Candidates = r.ptr],
   ptr |-> dest, panic |-> r.panic]

\* joinResponses, were it to keep the latest response instead of dest
joinResponsesLatest(h, dest, src) == [h |-> h, ptr |-> src, panic |-> FALSE]

\* joinResponses, were it to take the PromptFeedback of src as well
joinResponsesTakeFeedback(h, dest, src) ==
  IF dest = NilRef THEN [h |-> h, ptr |-> src, panic |-> FALSE]
  ELSE assignCandidates(
         joinCandidateLists(
           [h EXCEPT !.resp[dest].PromptFeedback = h.resp[src].PromptFeedback],
           h.resp[dest].Candidates, h.resp[src].Candidates), dest)

\* joinResponses(dest, src) on references
joinResponses(h, dest, src) ==
  IF dest = NilRef THEN [h |-> h, ptr |-> src, panic |-> FALSE]
  ELSE assignCandidates(joinCandidateLists(h, h.resp[dest].Candidates,
                                           h.resp[src].Candidates), dest)

-----------------------------------------------------------------------------
(* The wire messages the transport delivers, and their decoding *)

pbText(s) == [oneof |-> "Text", Text |-> s]
pbInlineData(m, d) ==
  [oneof |-> "InlineData", InlineData |-> [MimeType |-> m, Data |-> d]]
pbFileData(m, u) ==
  [oneof |-> "FileData", FileData |-> [MimeType |-> m, FileUri |-> u]]

\* a Part whose Data is unset, one whose Data is a kind this client does not
\* know, and an InlineData wrapper that holds no message
pbUnset == [oneof |-> "nil"]
pbUnknown == [oneof |-> "FunctionCall"]
pbInlineDataNil == [oneof |-> "InlineData", InlineData |-> NilVal]

\* the outcome of a decoding that panicked
Panic(msg) == [kind |-> "panic", msg |-> msg]

IsPanic(v) == "kind" \in DOMAIN v /\ v.kind = "panic"

pbContent(parts) == [Role |-> "model", Parts |-> parts]
pbCitationMetadata(cs_) == [Citations |-> cs_]
pbCandidate(i, c, fr, sr, cm) ==
  [Index |-> i, Content |-> c, FinishReason |-> fr, SafetyRatings |-> sr,
   CitationMetadata |-> cm]
pbResponse(cands, pf) == [Candidates |-> cands, PromptFeedback |-> pf]

\* partFromProto: a Part, or the panic of the default arm or of the
\* dereference of a nil d.InlineData / d.FileData
partFromProto(p) ==
  CASE p.oneof = "Text" -> Text(p.Text)
    [] p.oneof = "InlineData" ->
         IF p.InlineData = NilVal THEN Panic("nil pointer dereference")
         ELSE Blob(p.InlineData.MimeType, p.InlineData.Data)
    [] p.oneof = "FileData" ->
         IF p.FileData = NilVal THEN Panic("nil pointer dereference")
         ELSE FileData(p.FileData.MimeType, p.FileData.FileUri)
    [] OTHER -> Panic("unknown Part.Data type")

\* the first panic among the decoded values vs, in list order
firstPanic(vs) == vs[CHOOSE n \in 1..Len(vs) :
                       IsPanic(vs[n]) /\ \A n2 \in 1..(n - 1) : ~IsPanic(vs[n2])]

\* the decoded parts as a Content, or the panic that decoding one of them raised
contentOf(role, parts) ==
  IF \E n \in 1..Len(parts) : IsPanic(parts[n]) THEN firstPanic(parts)
  ELSE [Role |-> role, Parts |-> parts]

\* (Content{}).fromProto: nil for nil
ContentFromProto(p) ==
  IF p = NilVal THEN NilVal
  ELSE contentOf(p.Role, [n \in 1..Len(p.Parts) |-> partFromProto(p.Parts[n])])

\* (CitationMetadata{}).fromProto: nil for nil
CitationMetadataFromProto(p) ==
  IF p = NilVal THEN NilVal ELSE [Citations |-> p.Citations]

\* (PromptFeedback{}).fromProto: nil for nil
PromptFeedbackFromProto(p) ==
  IF p = NilVal THEN NilVal
  ELSE [BlockReason |-> p.BlockReason,
        BlockReasonMessage |-> p.BlockReasonMessage]

\* the Candidate with the decoded Content c, or the panic decoding it raised
candidateOf(p, c) ==
  IF IsPanic(c) THEN c
  ELSE [Index |-> p.Index,
        Content |-> c,
        FinishReason |-> p.FinishReason,
        SafetyRatings |-> p.SafetyRatings,
        CitationMetadata |-> CitationMetadataFromProto(p.CitationMetadata)]

\* (Candidate{}).fromProto
CandidateFromProto(p) == candidateOf(p, ContentFromProto(p.Content))

\* mapSlice(resp.Candidates, (Candidate{}).fromProto) panicked
decodePanics(cands) == \E n \in 1..Len(cands) : IsPanic(cands[n])

\* what protoToResponse yields when it returns, and when it panics
returned(r, e) == [resp |-> r, err |-> e, panic |-> FALSE]
panics == [resp |-> NilVal, err |-> NoErr, panic |-> TRUE]

\* the candidates of cands that protoToResponse's loop stops at
blockedAt(cands) ==
  {n \in 1..Len(cands) : cands[n].FinishReason = FinishReasonSafety}

Min(S) == CHOOSE n \in S : \A n2 \in S : n <= n2
Max(S) == CHOOSE n \in S : \A n2 \in S : n2 <= n

\* the loop, were it to run to its end and keep the last blocked candidate
lastBlocked(cands) == cands[Max(blockedAt(cands))]

\* the candidate protoToResponse's loop returns at: the first blocked one
firstBlocked(cands) == cands[Min(blockedAt(cands))]

\* protoToResponse, were it to look at the candidates before the PromptFeedback
protoToResponseCandidatesFirst(p, k) ==
  LET pf == PromptFeedbackFromProto(p.PromptFeedback)
      cands == [n \in 1..Len(p.Candidates) |-> CandidateFromProto(p.Candidates[n])]
  IN IF decodePanics(cands) THEN panics
     ELSE IF blockedAt(cands) # {}
       THEN returned(NilVal, BlockedError(firstBlocked(cands), NilVal, k))
     ELSE IF pf # NilVal
       THEN returned(NilVal, BlockedError(NilVal, pf, k))
     ELSE returned([Candidates |-> cands, PromptFeedback |-> NilVal], NoErr)

\* protoToResponse, were it to let safety-blocked candidates through
protoToResponseNoSafetyCheck(p, k) ==
  LET pf == PromptFeedbackFromProto(p.PromptFeedback)
      cands == [n \in 1..Len(p.Candidates) |-> CandidateFromProto(p.Candidates[n])]
  IN IF pf # NilVal
       THEN returned(NilVal, BlockedError(NilVal, pf, k))
     ELSE IF decodePanics(cands) THEN panics
     ELSE returned([Candidates |-> cands, PromptFeedback |-> NilVal], NoErr)

\* protoToResponse(resp); k identifies the BlockedError it may allocate
protoToResponse(p, k) ==
  LET pf == PromptFeedbackFromProto(p.PromptFeedback)
      cands == [n \in 1..Len(p.Candidates) |-> CandidateFromProto(p.Candidates[n])]
  IN IF pf # NilVal
       THEN returned(NilVal, BlockedError(NilVal, pf, k))
     ELSE IF decodePanics(cands) THEN panics
     ELSE IF blockedAt(cands) # {}
       THEN returned(NilVal, BlockedError(firstBlocked(cands), NilVal, k))
     ELSE returned([Candidates |-> cands, PromptFeedback |-> NilVal], NoErr)

\* the objects protoToResponse allocates for the k-th response it returns:
\* the response <<k>>, and for its j-th candidate the Candidate <<k, j>> with
\* its Content and its CitationMetadata when the chunk carries them
Alloc(h, k, r) ==
  LET n == Len(r.Candidates)
      ids == {<<k, j>> : j \in 1..n}
      withContent == {<<k, j>> : j \in {j \in 1..n : r.Candidates[j].Content # NilVal}}
      withCite == {<<k, j>> : j \in {j \in 1..n : r.Candidates[j].CitationMetadata # NilVal}}
  IN Heap([q \in {<<k>>} |-> [Candidates |-> [j \in 1..n |-> <<k, j>>],
                             PromptFeedback |-> r.PromptFeedback]] @@ h.resp,
          [q \in ids |->
             LET c == r.Candidates[q[2]]
             IN [Index |-> c.Index,
                 Content |-> IF q \in withContent THEN q ELSE NilRef,
                 FinishReason |-> c.FinishReason,
                 SafetyRatings |-> c.SafetyRatings,
                 CitationMetadata |-> IF q \in withCite THEN q ELSE NilRef]]
             @@ h.cand,
          [q \in withContent |-> r.Candidates[q[2]].Content] @@ h.content,
          [q \in withCite |-> r.Candidates[q[2]].CitationMetadata] @@ h.cite)

-----------------------------------------------------------------------------
(* What the transport may deliver *)

pfBlocked == [BlockReason |-> "SAFETY", BlockReasonMessage |-> "prompt rejected"]
pfOther == [BlockReason |-> "OTHER", BlockReasonMessage |-> ""]

\* a candidate with content only
pbC(i, parts) ==
  pbCandidate(i, pbContent(parts), FinishReasonStop, "r1", NilVal)

pbA == pbText("a")
pbB == pbText("b")
pbX == pbInlineData("image/png", "x")

\* chunks that decode to a response
OkChunks ==
  { pbResponse(<<>>, NilVal),
    pbResponse(<<pbCandidate(0, NilVal, FinishReasonStop, "r1", NilVal)>>, NilVal),
    pbResponse(<<pbCandidate(0, pbContent(<<pbA>>), FinishReasonStop, "r1",
                             pbCitationMetadata(<<"c1">>))>>, NilVal),
    pbResponse(<<pbCandidate(0, pbContent(<<pbB>>), FinishReasonMaxTokens, "r2",
                             pbCitationMetadata(<<"c2", "c1">>))>>, NilVal),
    pbResponse(<<pbC(0, <<pbX>>)>>, NilVal),
    pbResponse(<<pbC(0, <<pbA, pbB>>)>>, NilVal),
    pbResponse(<<pbC(1, <<pbB>>)>>, NilVal),
    pbResponse(<<pbCandidate(0, NilVal, FinishReasonStop, "r1", NilVal),
                 pbCandidate(0, NilVal, FinishReasonStop, "r1", NilVal)>>, NilVal),
    pbResponse(<<pbC(1, <<pbA>>), pbC(0, <<pbB>>)>>, NilVal),
    pbResponse(<<pbCandidate(0, pbContent(<<pbA>>), FinishReasonStop, "r1",
                             pbCitationMetadata(<<"c1">>)),
                 pbCandidate(0, pbContent(<<pbB>>), FinishReasonMaxTokens, "r2",
                             NilVal)>>, NilVal) }

\* chunks that carry a blocking signal
BlockedChunks ==
  { pbResponse(<<>>, pfBlocked),
    pbResponse(<<pbCandidate(0, NilVal, FinishReasonSafety, "r1", NilVal)>>,
               pfOther),
    pbResponse(<<pbC(0, <<pbA>>),
                 pbCandidate(1, NilVal, FinishReasonSafety, "r2", NilVal)>>,
               NilVal),
    pbResponse(<<pbCandidate(1, NilVal, FinishReasonSafety, "r1", NilVal),
                 pbCandidate(0, NilVal, FinishReasonSafety, "r2", NilVal)>>,
               NilVal),
    pbResponse(<<pbC(0, <<pbUnknown>>)>>, pfBlocked) }

\* chunks with a part that partFromProto panics on, and no PromptFeedback
PanicChunks ==
  { pbResponse(<<pbC(0, <<pbA, pbUnknown>>)>>, NilVal),
    pbResponse(<<pbC(0, <<pbUnset>>)>>, NilVal),
    pbResponse(<<pbC(0, <<pbInlineDataNil>>)>>, NilVal),
    pbResponse(<<pbCandidate(0, NilVal, FinishReasonSafety, "r1", NilVal),
                 pbC(1, <<pbUnknown>>)>>, NilVal) }

Chunks == OkChunks \cup BlockedChunks \cup PanicChunks

\* the outcomes of one iter.sc.Recv()
RecvOutcomes ==
  {[kind |-> "chunk", chunk |-> c, err |-> NoErr] : c \in Chunks}
    \cup {[kind |-> "error", chunk |-> NilVal, err |-> e] :
            e \in {EOF, ErrUnavailable, ErrCanceled}}

-----------------------------------------------------------------------------
(* The iterator *)

heap == Heap(resp, cand, content, cite)

\* the test Next starts with, were it to remember only the end of the stream
terminalOnlyEOF(e) == e = EOF

\* the test Next starts with, were it to remember failures only and not the
\* end of the stream
terminalOnlyFailure(e) == e.kind \in {"transport", "BlockedError"}

\* the test Next starts with, were it to overlook the error of opening
terminalIgnoreOpen(e) == e # NoErr /\ e # ErrOpen

\* the test Next starts with
terminal(e) == e # NoErr

\* what Next returns for the end of the stream
eofSignal == Done

\* the hand-over to the session at the end of the stream
addToHistory(hs, m) ==
  IF cs /\ m # NilRef THEN Append(hs, resp[m].Candidates) ELSE hs

\* iter.merged = joinResponses(iter.merged, gcp) for the response gcp that
\* protoToResponse has just allocated as <<k>>
merge(h, m, k) == joinResponses(h, m, <<k>>)

\* the end of Next for a chunk that decoded to the response <<k>> with value
\* gcp, r what joinResponses yielded: a panic inside it leaves iter.merged
\* unassigned and Next does not return
nextMerged(k, gcp, r) ==
  /\ resp' = r.h.resp
  /\ cand' = r.h.cand
  /\ content' = r.h.content
  /\ cite' = r.h.cite
  /\ panicked' = r.panic
  /\ merged' = IF r.panic THEN merged ELSE r.ptr
  /\ ret' = IF r.panic THEN ret ELSE [resp |-> <<k>>, err |-> NoErr]
  /\ hist' = IF r.panic THEN hist ELSE Append(hist, gcp)
  /\ nmerge' = nmerge + 1

\* Next from protoToResponse on, were it to return the decoded response
\* without folding it into the aggregate
nextDecodedNoMerge(k, p) ==
  IF p.panic
    THEN /\ err' = NoErr
         /\ panicked' = TRUE
         /\ UNCHANGED <<merged, resp, cand, content, cite, ret, hist, nmerge>>
  ELSE IF p.err # NoErr
    THEN /\ err' = p.err
         /\ ret' = [resp |-> NilRef, err |-> p.err]
         /\ UNCHANGED <<merged, resp, cand, content, cite, panicked, hist,
                        nmerge>>
    ELSE /\ err' = NoErr
         /\ resp' = Alloc(heap, k, p.resp).resp
         /\ cand' = Alloc(heap, k, p.resp).cand
         /\ content' = Alloc(heap, k, p.resp).content
         /\ cite' = Alloc(heap, k, p.resp).cite
         /\ ret' = [resp |-> <<k>>, err |-> NoErr]
         /\ hist' = Append(hist, p.resp)
         /\ UNCHANGED <<merged, panicked, nmerge>>

\* Next from protoToResponse on, p what it yielded for the k-th chunk; a
\* panic inside protoToResponse leaves iter.err as Recv set it and Next does
\* not return
nextDecoded(k, p) ==
  IF p.panic
    THEN /\ err' = NoErr
         /\ panicked' = TRUE
         /\ UNCHANGED <<merged, resp, cand, content, cite, ret, hist, nmerge>>
  ELSE IF p.err # NoErr
    THEN /\ err' = p.err
         /\ ret' = [resp |-> NilRef, err |-> p.err]
         /\ UNCHANGED <<merged, resp, cand, content, cite, panicked, hist,
                        nmerge>>
    ELSE /\ err' = NoErr
         /\ nextMerged(k, p.resp, merge(Alloc(heap, k, p.resp), merged, k))

\* GenerateContentResponseIterator.Next with ev what Recv yields if called
IteratorNext(ev) ==
  IF terminal(err)
    THEN /\ ret' = [resp |-> NilRef, err |-> err]
         /\ post' = post + 1
         /\ UNCHANGED <<err, merged, resp, cand, content, cite, panicked,
                        history, nrecv, recvd, hist, nmerge>>
  ELSE IF ev.kind = "error"
    THEN /\ nrecv' = nrecv + 1
         /\ recvd' = ev
         /\ err' = ev.err
         /\ history' = IF ev.err = EOF THEN addToHistory(history, merged)
                       ELSE history
         /\ ret' = [resp |-> NilRef,
                    err |-> IF ev.err = EOF THEN eofSignal ELSE ev.err]
         /\ UNCHANGED <<merged, resp, cand, content, cite, panicked, post, hist,
                        nmerge>>
  ELSE /\ nrecv' = nrecv + 1
       /\ recvd' = ev
       /\ UNCHANGED <<history, post>>
       /\ nextDecoded(Len(hist) + 1, protoToResponse(ev.chunk, Len(hist) + 1))

\* what the transport can answer now
canRecv(ev) == ev.kind = "chunk" => Len(hist) < MaxChunks

\* a caller of GenerateContentStream (or of a chat session) polls the iterator
CallNext ==
  /\ mode = "stream"
  /\ ~panicked
  /\ terminal(err) => post < MaxPost
  /\ \E ev \in RecvOutcomes : canRecv(ev) /\ IteratorNext(ev)
  /\ UNCHANGED <<mode, cs, sc, gc, jin, jout>>

\* what generateContent returns after a call of Next that returned e, if it does
generateContentReturn(m, e) ==
  IF e = Done THEN [returned |-> TRUE, resp |-> m, err |-> NoErr]
  ELSE IF e # NoErr THEN [returned |-> TRUE, resp |-> NilRef, err |-> e]
  ELSE [returned |-> FALSE, resp |-> NilRef, err |-> NoErr]

\* one turn of the loop of GenerativeModel.generateContent
generateContent ==
  /\ mode = "single"
  /\ ~panicked
  /\ ~gc.returned
  /\ \E ev \in RecvOutcomes : canRecv(ev) /\ IteratorNext(ev)
  /\ gc' = IF panicked' THEN gc ELSE generateContentReturn(merged', ret'.err)
  /\ UNCHANGED <<mode, cs, sc, jin, jout>>

\* the fields of an iterator just constructed, and the observers at rest
Fresh ==
  /\ merged = NilRef
  /\ resp = <<>>
  /\ cand = <<>>
  /\ content = <<>>
  /\ cite = <<>>
  /\ ret = [resp |-> NilRef, err |-> NoErr]
  /\ gc = [returned |-> FALSE, resp |-> NilRef, err |-> NoErr]
  /\ panicked = FALSE
  /\ history = <<>>
  /\ nrecv = 0
  /\ post = 0
  /\ recvd = [kind |-> "none", chunk |-> NilVal, err |-> NoErr]
  /\ hist = <<>>
  /\ nmerge = 0

\* GenerateContentStream / generateContent / a chat session construct the
\* iterator: the stream opened or failed to, and is bound to a session or not
Init ==
  /\ mode \in {"stream", "single"}
  /\ cs \in BOOLEAN
  /\ mode = "single" => ~cs
  /\ sc \in {"client", "nil"}
  /\ err = IF sc = "nil" THEN ErrOpen ELSE NoErr
  /\ Fresh
  /\ jin = [dest |-> <<>>, src |-> <<>>]
  /\ jout = [set |-> FALSE, parts |-> <<>>]

Next == CallNext \/ generateContent

Spec == Init /\ [][Next]_vars

-----------------------------------------------------------------------------
(* Reading the state *)

\* the step is a call of Next that returned
called == post' # post \/ nrecv' # nrecv

\* the candidates of the stored aggregate
AggCands == IF merged = NilRef THEN <<>> ELSE resp[merged].Candidates

\* candidate d has a Content
HasParts(d) == cand[d].Content # NilRef

\* the parts of candidate d, none when it has no Content
PartsOf(d) == IF HasParts(d) THEN content[cand[d].Content].Parts ELSE <<>>

\* candidate d has a CitationMetadata
HasCitations(d) == cand[d].CitationMetadata # NilRef

\* the citations of candidate d, none when it has no CitationMetadata
CitationsOf(d) ==
  IF HasCitations(d) THEN cite[cand[d].CitationMetadata].Citations ELSE <<>>

IsFailure(e) == e.kind \in {"transport", "BlockedError"}

-----------------------------------------------------------------------------
(* C1 *)

\* C1: once Next has returned the end-of-stream signal, every later call of
\* Next returns that same signal (iterator.Done) and calls Recv no more.
C1_IdempotentDone ==
  [][(err = EOF /\ called) => (ret'.err = Done /\ nrecv' = nrecv)]_vars

-----------------------------------------------------------------------------
(* C2 *)

\* C2: once Next has returned a transport error or a BlockedError, every later
\* call returns that same error and no response, and Recv is not called again.
C2_FailedBlockedAbsorbing ==
  [][(IsFailure(ret.err) /\ called) =>
       (ret'.err = ret.err /\ ret'.resp = NilRef /\ nrecv' = nrecv
          /\ err' = err /\ merged' = merged)]_vars

\* a blocked iterator that was polled twice more after chunks had been merged
C2_Witness ==
  /\ ret.err.kind = "BlockedError"
  /\ post >= 2
  /\ Len(hist) >= 1
  /\ nrecv = Len(hist) + 1

-----------------------------------------------------------------------------
(* Reading the stream received so far *)

Indices(r) == {r.Candidates[n].Index : n \in 1..Len(r.Candidates)}

SeenIndices == UNION {Indices(hist[k]) : k \in 1..Len(hist)}

AggIndices == {cand[AggCands[n]].Index : n \in 1..Len(AggCands)}

\* the stream has ended cleanly
Ended == err = EOF

\* the positions of response r that carry index i
PosWith(r, i) == {n \in 1..Len(r.Candidates) : r.Candidates[n].Index = i}

\* no index is listed twice in response r
UniqueIndices(r) == \A i \in Indices(r) : Cardinality(PosWith(r, i)) = 1

\* adjacent Text parts made one, left to right
RECURSIVE Collapse(_)
Collapse(ps) ==
  IF Len(ps) < 2 THEN ps
  ELSE IF IsText(ps[1]) /\ IsText(ps[2])
    THEN Collapse(<<Text(ps[1].text \o ps[2].text)>> \o Tail(Tail(ps)))
    ELSE <<ps[1]>> \o Collapse(Tail(ps))

RECURSIVE Flatten(_)
Flatten(ss) == IF ss = <<>> THEN <<>> ELSE Head(ss) \o Flatten(Tail(ss))

HasContent(c) == c.Content # NilVal

\* the parts the candidates of index i carry in response r, in list order
PartsIn(r, i) ==
  Flatten([n \in 1..Len(r.Candidates) |->
             IF r.Candidates[n].Index = i /\ HasContent(r.Candidates[n])
               THEN r.Candidates[n].Content.Parts ELSE <<>>])

\* the parts of index i over the whole stream, in arrival order
StreamParts(i) == Flatten([k \in 1..Len(hist) |-> PartsIn(hist[k], i)])

-----------------------------------------------------------------------------
(* C3 *)

\* C3 as stated: after a clean end of an unblocked stream, the indices of the
\* aggregate's candidates are the union of the indices seen in all chunks.
C3_IndicesAreUnion == Ended => AggIndices = SeenIndices

\* C3 as amended: after a clean end of an unblocked stream, the indices of the
\* aggregate's candidates are the indices of the first chunk; an index that
\* first appears in a later chunk is not added.
C3_IndicesAreFirstChunk ==
  Ended => AggIndices = (IF hist = <<>> THEN {} ELSE Indices(hist[1]))

\* a stream ended cleanly whose second chunk brought an index the first lacked
C3_Witness ==
  /\ Ended
  /\ Len(hist) >= 2
  /\ Indices(hist[2]) \ Indices(hist[1]) # {}
  /\ Indices(hist[1]) # {}

-----------------------------------------------------------------------------
(* C4 *)

\* C4 as stated: each candidate of the final aggregate has the parts of its
\* index from every chunk, concatenated in arrival order, adjacent Texts
\* collapsed; also for a stream of one chunk.
C4_PartsAreCollapsedConcat ==
  Ended =>
    \A n \in 1..Len(AggCands) :
      PartsOf(AggCands[n]) = Collapse(StreamParts(cand[AggCands[n]].Index))

\* the chunks that contribute Content to the n-th candidate of the aggregate:
\* its own entry in the first chunk, and in each later chunk the last entry
\* that carries its index
Contributions(n) ==
  LET i == hist[1].Candidates[n].Index
      entry(k) == IF k = 1 THEN <<hist[1].Candidates[n]>>
                  ELSE IF PosWith(hist[k], i) = {} THEN <<>>
                  ELSE <<hist[k].Candidates[Max(PosWith(hist[k], i))]>>
  IN SelectSeq(Flatten([k \in 1..Len(hist) |-> entry(k)]), HasContent)

ContributedParts(n) ==
  Flatten([k \in 1..Len(Contributions(n)) |-> Contributions(n)[k].Content.Parts])

\* C4 as amended: for an unblocked stream whose first chunk lists no index
\* twice, a candidate of the final aggregate to which two or more chunks
\* contributed Content has the contributed parts concatenated in arrival
\* order with adjacent Texts collapsed; one to which a single chunk
\* contributed has that chunk's parts unchanged, adjacent Texts not
\* collapsed; one to which none did has no Content.
C4_PartsAreMergedContributions ==
  (Ended /\ hist # <<>> /\ UniqueIndices(hist[1])) =>
    \A n \in 1..Len(AggCands) :
      /\ HasParts(AggCands[n]) <=> Contributions(n) # <<>>
      /\ PartsOf(AggCands[n]) =
           (IF Len(Contributions(n)) <= 1 THEN ContributedParts(n)
            ELSE Collapse(ContributedParts(n)))

\* a stream ended cleanly in which a candidate without Content in the first
\* chunk got parts from two later chunks, merged into fewer parts
C4_Witness ==
  /\ Ended
  /\ Len(hist) = 3
  /\ UniqueIndices(hist[1])
  /\ \E n \in 1..Len(AggCands) :
       /\ ~HasContent(hist[1].Candidates[n])
       /\ Len(Contributions(n)) = 2
       /\ Len(PartsOf(AggCands[n])) < Len(ContributedParts(n))

-----------------------------------------------------------------------------
(* C5 *)

\* every chunk so far has exactly one candidate of index i, with exactly one
\* part, a Text
OneTextPerChunk(i) ==
  \A k \in 1..Len(hist) :
    /\ Cardinality(PosWith(hist[k], i)) = 1
    /\ PartsIn(hist[k], i) # <<>>
    /\ Len(PartsIn(hist[k], i)) = 1
    /\ IsText(PartsIn(hist[k], i)[1])

RECURSIVE TextsUpTo(_, _)
TextsUpTo(i, k) ==
  IF k = 0 THEN "" ELSE TextsUpTo(i, k - 1) \o PartsIn(hist[k], i)[1].text

\* C5: if each of the n >= 1 chunks received carries exactly one candidate of
\* index i and that candidate exactly one part, a Text, then the aggregate has
\* one candidate of index i and its parts are the single Text t1 t2 ... tn.
C5_TextsConcatenated ==
  \A i \in SeenIndices :
    (~panicked /\ OneTextPerChunk(i)) =>
      /\ Cardinality({n \in 1..Len(AggCands) : cand[AggCands[n]].Index = i}) = 1
      /\ \A n \in 1..Len(AggCands) :
           cand[AggCands[n]].Index = i =>
             PartsOf(AggCands[n]) = <<Text(TextsUpTo(i, Len(hist)))>>

\* three chunks, each one Text for index 0, not all the same text
C5_Witness ==
  /\ Len(hist) = 3
  /\ OneTextPerChunk(0)
  /\ TextsUpTo(0, 3) = "abb"
  /\ PartsOf(AggCands[1]) = <<Text("abb")>>

-----------------------------------------------------------------------------
(* joinParts on its own: every pair of part lists up to MaxParts long *)

PartValues ==
  {Text("a"), Text("b"), Blob("image/png", "x"), FileData("text/plain", "gs://y")}

PartSeqs == UNION {[1..n -> PartValues] : n \in 0..MaxParts}

InitJoin ==
  /\ mode = "stream"
  /\ cs = FALSE
  /\ sc = "client"
  /\ err = NoErr
  /\ Fresh
  /\ jin \in [dest : PartSeqs, src : PartSeqs]
  /\ jout = [set |-> FALSE, parts |-> <<>>]

ApplyJoinParts ==
  /\ ~jout.set
  /\ jout' = [set |-> TRUE, parts |-> joinParts(jin.dest, jin.src)]
  /\ UNCHANGED <<mode, cs, sc, err, merged, resp, cand, content, cite, ret, gc,
                 panicked, history, nrecv, post, recvd, hist, nmerge, jin>>

NextJoin == ApplyJoinParts

SpecJoin == InitJoin /\ [][NextJoin]_vars

-----------------------------------------------------------------------------
(* C6 *)

IsNotText(p) == ~IsText(p)

\* the texts of ps between its non-text parts: one string per stretch
RECURSIVE Stretches(_)
Stretches(ps) ==
  IF ps = <<>> THEN <<"">>
  ELSE IF IsText(Head(ps))
    THEN <<Head(ps).text \o Head(Stretches(Tail(ps)))>> \o Tail(Stretches(Tail(ps)))
    ELSE <<"">> \o Stretches(Tail(ps))

\* C6: joinParts keeps every non-text part of dest and src unchanged and in
\* order, and no text crosses a non-text part: the text before, between and
\* after the non-text parts is what it was in dest followed by src; so
\* [Text a, Blob x, Text b] stays three parts.
C6_NoMergeAcrossNonText ==
  jout.set =>
    LET in == jin.dest \o jin.src
        abc == <<Text("a"), Blob("image/png", "x"), Text("b")>>
    IN /\ SelectSeq(jout.parts, IsNotText) = SelectSeq(in, IsNotText)
       /\ Stretches(jout.parts) = Stretches(in)
       /\ in = abc => jout.parts = abc

\* dest ends with a Blob after a Text, src starts with a Text: three parts
C6_Witness ==
  /\ jout.set
  /\ jin.dest = <<Text("a"), Blob("image/png", "x")>>
  /\ jin.src = <<Text("b")>>
  /\ jout.parts = <<Text("a"), Blob("image/png", "x"), Text("b")>>

-----------------------------------------------------------------------------
(* C7 *)

\* the last message received carries a PromptFeedback
RecvdPromptFeedback ==
  recvd.kind = "chunk" /\ recvd.chunk.PromptFeedback # NilVal

\* the positions of the last message received whose candidate is safety-blocked
RecvdBlocked ==
  IF recvd.kind # "chunk" THEN {}
  ELSE {n \in 1..Len(recvd.chunk.Candidates) :
          recvd.chunk.Candidates[n].FinishReason = FinishReasonSafety}

\* the last message received has a candidate with a part that partFromProto
\* panics on
RecvdUndecodable ==
  /\ recvd.kind = "chunk"
  /\ decodePanics([n \in 1..Len(recvd.chunk.Candidates) |->
                     CandidateFromProto(recvd.chunk.Candidates[n])])

\* C7: when the chunk received carries a PromptFeedback, that call of Next
\* fails with a BlockedError holding exactly that PromptFeedback and no
\* Candidate, whatever the chunk's candidates are; the error is stored, no
\* response is returned and Recv is never called again.
C7_PromptFeedbackBlocks ==
  RecvdPromptFeedback =>
    /\ ret.err.kind = "BlockedError"
    /\ ret.err.PromptFeedback =
         [BlockReason |-> recvd.chunk.PromptFeedback.BlockReason,
          BlockReasonMessage |-> recvd.chunk.PromptFeedback.BlockReasonMessage]
    /\ ret.err.Candidate = NilVal
    /\ ret.resp = NilRef
    /\ err = ret.err
    /\ nrecv = Len(hist) + 1

\* after a merged chunk, a chunk with a PromptFeedback and a safety-blocked
\* candidate was received, and the iterator was polled again
C7_Witness ==
  /\ RecvdPromptFeedback
  /\ RecvdBlocked # {}
  /\ Len(hist) >= 1
  /\ post >= 1

-----------------------------------------------------------------------------
(* C8 *)

\* C8: when the chunk received (first or later) passes the PromptFeedback
\* test, its candidates decode, and one is safety-blocked, that call of Next
\* fails with a BlockedError holding the first such candidate of the list and
\* no PromptFeedback, even if other candidates are not blocked; no response
\* is returned for the chunk, the error is stored and Recv is never called
\* again.
C8_SafetyCandidateBlocks ==
  (~RecvdPromptFeedback /\ ~RecvdUndecodable /\ RecvdBlocked # {}) =>
    LET first == recvd.chunk.Candidates[Min(RecvdBlocked)]
    IN /\ ret.err.kind = "BlockedError"
       /\ ret.err.Candidate # NilVal
       /\ ret.err.Candidate.Index = first.Index
       /\ ret.err.Candidate.FinishReason = FinishReasonSafety
       /\ ret.err.Candidate.SafetyRatings = first.SafetyRatings
       /\ ret.err.PromptFeedback = NilVal
       /\ ret.resp = NilRef
       /\ err = ret.err
       /\ nrecv = Len(hist) + 1

\* after a merged chunk, a chunk with two safety-blocked candidates was
\* received, and the iterator was polled again
C8_Witness ==
  /\ ~RecvdPromptFeedback
  /\ ~RecvdUndecodable
  /\ Cardinality(RecvdBlocked) = 2
  /\ Len(hist) >= 1
  /\ post >= 1

-----------------------------------------------------------------------------
(* C9 *)

\* the step merges a chunk into an aggregate that exists
MergeStep == hist # <<>> /\ Len(hist') = Len(hist) + 1

\* the citations the chunk r brings for index i: those of the last entry of
\* that index, none when there is no entry or it has no CitationMetadata
CitationsFor(r, i) ==
  IF PosWith(r, i) = {} THEN <<>>
  ELSE LET c == r.Candidates[Max(PosWith(r, i))]
       IN IF c.CitationMetadata = NilVal THEN <<>>
          ELSE c.CitationMetadata.Citations

\* C9: in every merge step, for every candidate of the aggregate, the
\* citation list after the merge is the list before it followed by exactly
\* the citations the chunk carries for the candidate's index, in their order,
\* duplicates kept.
C9_CitationsAppendOnly ==
  [][MergeStep =>
       \A n \in 1..Len(AggCands) :
         CitationsOf(AggCands[n])' =
           CitationsOf(AggCands[n])
             \o CitationsFor(hist'[Len(hist')], cand[AggCands[n]].Index)]_vars

-----------------------------------------------------------------------------
(* C10 *)

\* C10: generateContent returns exactly when a call of Next returns something
\* other than a response; after a clean end it returns the stored aggregate
\* (which exists if any chunk was merged) and no error; after a transport
\* error or a block it returns that error and no aggregate, however many
\* chunks were merged before; and when a chunk cannot be decoded it returns
\* an error and no aggregate as well.
C10_SingleShot ==
  mode = "single" =>
    /\ gc.returned <=> ret.err # NoErr
    /\ (gc.returned /\ ret.err = Done) =>
         /\ gc.err = NoErr
         /\ gc.resp = merged
         /\ hist # <<>> => gc.resp = <<1>>
    /\ (gc.returned /\ ret.err # Done) =>
         /\ IsFailure(gc.err)
         /\ gc.err = ret.err
         /\ gc.err = err
         /\ gc.resp = NilRef
    /\ (~RecvdPromptFeedback /\ RecvdUndecodable) =>
         /\ gc.returned
         /\ gc.err # NoErr
         /\ gc.resp = NilRef

-----------------------------------------------------------------------------
(* C11 *)

\* C11 as stated: for an iterator bound to a session, once the stream has
\* ended cleanly, after any number of chunks, zero included, the candidate
\* list of the aggregate has been handed to the session exactly once, already
\* when the end signal is returned and however often Next is called after.
C11_HandedOnce ==
  (cs /\ Ended) => (Len(history) = 1 /\ history[1] = AggCands)

\* C11 as amended: for an iterator bound to a session, once the stream has
\* ended cleanly after at least one chunk was merged, the candidate list of
\* the aggregate has been handed to the session exactly once, already when
\* the end signal is returned and however often Next is called after; when
\* the stream ended with no chunk merged, in every state before the end, and
\* for an iterator bound to no session, nothing has been handed over.
C11_HandedOnceIfMerged ==
  /\ (cs /\ Ended /\ merged # NilRef) => history = <<resp[merged].Candidates>>
  /\ (cs /\ Ended /\ merged = NilRef) => history = <<>>
  /\ ~(cs /\ Ended) => history = <<>>

\* a session's stream ended cleanly after two chunks and was polled twice more
C11_Witness ==
  /\ cs
  /\ Ended
  /\ Len(hist) = 2
  /\ post = 2
  /\ history = <<AggCands>>
  /\ AggCands # <<>>

-----------------------------------------------------------------------------
(* C12 *)

\* the value of candidate d as a caller holding the pointer reads it now
ViewCand(d) ==
  [Index |-> cand[d].Index,
   Content |-> IF cand[d].Content = NilRef THEN NilVal
               ELSE content[cand[d].Content],
   FinishReason |-> cand[d].FinishReason,
   SafetyRatings |-> cand[d].SafetyRatings,
   CitationMetadata |-> IF cand[d].CitationMetadata = NilRef THEN NilVal
                        ELSE cite[cand[d].CitationMetadata]]

\* the value of response r as a caller holding the pointer reads it now
ViewResp(r) ==
  [Candidates |-> [n \in 1..Len(resp[r].Candidates) |->
                     ViewCand(resp[r].Candidates[n])],
   PromptFeedback |-> resp[r].PromptFeedback]

\* C12: every response Next has returned, the first one included, still reads
\* as it was decoded from its own chunk (same candidates, parts, finish
\* reasons, safety ratings and citations), whatever was merged since.
C12_ReturnedUnchanged ==
  \A k \in 1..Len(hist) : ViewResp(<<k>>) = hist[k]

-----------------------------------------------------------------------------
(* C13 *)

\* the indices of the candidates of the aggregate, in list order
AggIndexSeq == [n \in 1..Len(AggCands) |-> cand[AggCands[n]].Index]

\* the indices of the candidates of response r, in list order
IndexSeq(r) == [n \in 1..Len(r.Candidates) |-> r.Candidates[n].Index]

\* C13: once the first chunk has seeded the aggregate, every later merge
\* leaves the aggregate's candidate list with the same entries: same length,
\* same candidates, same indices in the same order as the first chunk had,
\* whatever indices the later chunks carry (missing, repeated or new).
C13_EntriesKept ==
  hist # <<>> =>
    /\ merged = <<1>>
    /\ AggCands = [n \in 1..Len(hist[1].Candidates) |-> <<1, n>>]
    /\ AggIndexSeq = IndexSeq(hist[1])

\* first chunk with index 0 alone; the second brings index 1 and lacks 0; the
\* third lists index 0 twice
C13_Witness ==
  /\ Len(hist) = 3
  /\ IndexSeq(hist[1]) = <<0>>
  /\ IndexSeq(hist[2]) = <<1>>
  /\ IndexSeq(hist[3]) = <<0, 0>>
  /\ ~panicked

-----------------------------------------------------------------------------
(* joinResponses on its own: dest (or nil) and src are responses with any
   PromptFeedback, allocated as <<1>> and <<2>> *)

FeedbackValues ==
  {NilVal, PromptFeedbackFromProto(pfBlocked), PromptFeedbackFromProto(pfOther)}

\* responses as decoded from the chunks, with any PromptFeedback
RespValues ==
  {[Candidates |-> protoToResponse(c, 1).resp.Candidates, PromptFeedback |-> pf] :
     c \in OkChunks, pf \in FeedbackValues}

InitJoinResponses ==
  /\ mode = "stream"
  /\ cs = FALSE
  /\ sc = "client"
  /\ err = NoErr
  /\ Fresh
  /\ jin \in [dest : RespValues \cup {NilVal}, src : RespValues]
  /\ jout = [set |-> FALSE, parts |-> <<>>]

\* the heap holding dest, when there is one, and src
joinInputs ==
  Alloc(IF jin.dest = NilVal THEN heap ELSE Alloc(heap, 1, jin.dest), 2, jin.src)

\* the heap and the pointer joinResponses yielded
storeJoined(r) ==
  /\ resp' = r.h.resp
  /\ cand' = r.h.cand
  /\ content' = r.h.content
  /\ cite' = r.h.cite
  /\ panicked' = r.panic
  /\ merged' = IF r.panic THEN merged ELSE r.ptr

ApplyJoinResponses ==
  /\ ~jout.set
  /\ jout' = [set |-> TRUE, parts |-> <<>>]
  /\ storeJoined(joinResponses(joinInputs,
                               IF jin.dest = NilVal THEN NilRef ELSE <<1>>, <<2>>))
  /\ UNCHANGED <<mode, cs, sc, err, ret, gc, history, nrecv, post, recvd, hist,
                 nmerge, jin>>

NextJoinResponses == ApplyJoinResponses

SpecJoinResponses == InitJoinResponses /\ [][NextJoinResponses]_vars

-----------------------------------------------------------------------------
(* C14 *)

\* C14: joinResponses(dest, src) with dest not nil yields dest with the
\* PromptFeedback dest had, set or not, whatever PromptFeedback and
\* candidates src has; src keeps its own.
C14_PromptFeedbackKept ==
  (jout.set /\ jin.dest # NilVal) =>
    /\ resp[<<1>>].PromptFeedback = jin.dest.PromptFeedback
    /\ resp[<<2>>].PromptFeedback = jin.src.PromptFeedback
    /\ ~panicked => merged = <<1>>

\* dest and src both had a PromptFeedback, not the same, and a candidate of
\* the same index that was merged
C14_Witness ==
  /\ jout.set
  /\ ~panicked
  /\ jin.dest # NilVal
  /\ jin.dest.PromptFeedback = PromptFeedbackFromProto(pfBlocked)
  /\ jin.src.PromptFeedback = PromptFeedbackFromProto(pfOther)
  /\ resp[merged].PromptFeedback = PromptFeedbackFromProto(pfBlocked)
  /\ AggCands # <<>>
  /\ PartsOf(AggCands[1]) = <<Text("ab")>>

-----------------------------------------------------------------------------
(* C15 *)

\* the message received in this call of Next decodes to a response
DecodesOk ==
  /\ recvd.kind = "chunk"
  /\ ~RecvdPromptFeedback
  /\ ~RecvdUndecodable
  /\ RecvdBlocked = {}

\* the last call of Next panicked while decoding the chunk
DecodePanicked == panicked /\ ~RecvdPromptFeedback /\ RecvdUndecodable

\* C15: a call of Next calls Recv at most once; it calls joinResponses once
\* if it received a chunk that decodes without a block, and not at all
\* otherwise; when joinResponses returns, that call of Next returns the
\* response and the aggregate exists.  So the number of merges is the number
\* of responses returned (one more while a merge that panicked never
\* returned) and never exceeds the number of receives; a chunk whose decoding
\* panicked is not merged.
C15_Sequential ==
  /\ [](/\ nmerge <= nrecv
        /\ ~panicked => nmerge = Len(hist)
        /\ (panicked /\ ~DecodePanicked) => nmerge = Len(hist) + 1
        /\ DecodePanicked => nmerge = Len(hist))
  /\ [][called =>
          /\ nrecv' \in {nrecv, nrecv + 1}
          /\ nmerge' = IF nrecv' = nrecv + 1 /\ DecodesOk' THEN nmerge + 1
                       ELSE nmerge
          /\ (nmerge' = nmerge + 1 /\ ~panicked') =>
               /\ hist' = Append(hist, hist'[Len(hist')])
               /\ ret' = [resp |-> <<Len(hist')>>, err |-> NoErr]
               /\ merged' # NilRef
          /\ nmerge' = nmerge => hist' = hist]_vars

\* three chunks were received and merged, then the end of the stream was
\* received, and Next was called once more
C15_Witness ==
  /\ nrecv = 4
  /\ nmerge = 3
  /\ Len(hist) = 3
  /\ Ended
  /\ post = 1

-----------------------------------------------------------------------------
(* C16 *)

\* the last entry of response r that carries index i
LastWith(r, i) == r.Candidates[Max(PosWith(r, i))]

\* C16: in every merge step, each candidate of the aggregate whose index the
\* chunk carries ends with the finish reason and the safety ratings of the
\* chunk's entry of that index, whatever it had before; of several entries
\* of that index, the last one in the chunk's list is the one taken.
C16_LastReceivedWins ==
  [][MergeStep =>
       \A n \in 1..Len(AggCands) :
         PosWith(hist'[Len(hist')], cand[AggCands[n]].Index) # {} =>
           /\ cand'[AggCands[n]].FinishReason =
                LastWith(hist'[Len(hist')], cand[AggCands[n]].Index).FinishReason
           /\ cand'[AggCands[n]].SafetyRatings =
                LastWith(hist'[Len(hist')], cand[AggCands[n]].Index).SafetyRatings]_vars

\* the first chunk gave index 0 one finish reason and rating; the second
\* lists index 0 twice with different values, and the aggregate has those of
\* the second entry
C16_Witness ==
  /\ Len(hist) = 2
  /\ IndexSeq(hist[1]) = <<0>>
  /\ hist[1].Candidates[1].FinishReason = FinishReasonStop
  /\ IndexSeq(hist[2]) = <<0, 0>>
  /\ hist[2].Candidates[1].FinishReason = FinishReasonStop
  /\ hist[2].Candidates[2].FinishReason = FinishReasonMaxTokens
  /\ cand[AggCands[1]].FinishReason = FinishReasonMaxTokens
  /\ cand[AggCands[1]].SafetyRatings = "r2"

-----------------------------------------------------------------------------
(* C17 *)

\* the step calls joinResponses with an aggregate that exists
JoinStep == hist # <<>> /\ nmerge' = nmerge + 1

\* C17: in every step that merges a chunk into the aggregate, a candidate of
\* the aggregate whose index the chunk does not carry reads after the merge
\* as it did before: same parts, finish reason, safety ratings and citations.
C17_AbsentIndexUntouched ==
  [][JoinStep =>
       \A n \in 1..Len(AggCands) :
         cand[AggCands[n]].Index \notin Indices(recvd'.chunk) =>
           ViewCand(AggCands[n])' = ViewCand(AggCands[n])]_vars

\* the aggregate has candidates of index 1 and 0; a chunk with index 1 alone
\* was merged: index 1 got its text, index 0 reads as in the first chunk
C17_Witness ==
  /\ Len(hist) = 2
  /\ IndexSeq(hist[1]) = <<1, 0>>
  /\ IndexSeq(hist[2]) = <<1>>
  /\ PartsOf(AggCands[1]) = <<Text("ab")>>
  /\ ViewCand(AggCands[2]) = hist[1].Candidates[2]

-----------------------------------------------------------------------------
(* C18 *)

\* C18: when opening the stream failed, the iterator holds the opening error
\* and no transport; every call of Next returns that error and no response,
\* Recv is never called, nothing is merged or handed to a session, and
\* generateContent returns after its first call of Next with that error and
\* no aggregate.
C18_OpenFailed ==
  sc = "nil" =>
    /\ err = ErrOpen
    /\ nrecv = 0
    /\ nmerge = 0
    /\ hist = <<>>
    /\ merged = NilRef
    /\ history = <<>>
    /\ ~panicked
    /\ post > 0 => ret = [resp |-> NilRef, err |-> ErrOpen]
    /\ mode = "single" =>
         /\ gc.returned <=> post = 1
         /\ gc.returned => (gc.err = ErrOpen /\ gc.resp = NilRef)

\* a stream that failed to open was polled twice
C18_Witness ==
  /\ sc = "nil"
  /\ mode = "stream"
  /\ post = 2
  /\ ret.err = ErrOpen

-----------------------------------------------------------------------------
(* C19 *)

\* C19: whatever the stream delivers, a stream that ends cleanly before any
\* chunk included, generateContent returns an aggregate or an error: never
\* no aggregate together with no error.
C19_AggregateOrError ==
  (mode = "single" /\ gc.returned) => (gc.resp # NilRef \/ gc.err # NoErr)

-----------------------------------------------------------------------------
(* C20 *)

\* C20: a call of Next that returns an error or the end of the stream, or
\* that panics while decoding the chunk, leaves iter.merged and every object
\* reachable from it as they were; and no
\* candidate of the stored aggregate ever has the finish reason SAFETY.
C20_AggregateUntouched ==
  /\ [](\A n \in 1..Len(AggCands) :
          cand[AggCands[n]].FinishReason # FinishReasonSafety)
  /\ [][(called /\ (ret'.err # NoErr \/ DecodePanicked')) =>
          /\ merged' = merged
          /\ resp' = resp
          /\ cand' = cand
          /\ content' = content
          /\ cite' = cite
          /\ hist' = hist]_vars

\* two chunks gave index 0 the text bb; then a chunk with a good candidate of
\* index 0 and a safety-blocked one was received: BlockedError, and the
\* aggregate still reads bb
C20_Witness ==
  /\ Len(hist) = 2
  /\ nrecv = 3
  /\ ret.err.kind = "BlockedError"
  /\ ret.err.Candidate # NilVal
  /\ Len(recvd.chunk.Candidates) = 2
  /\ recvd.chunk.Candidates[1].Index = 0
  /\ recvd.chunk.Candidates[1].FinishReason = FinishReasonStop
  /\ AggIndexSeq = <<0>>
  /\ PartsOf(AggCands[1]) = <<Text("bb")>>
  /\ cand[AggCands[1]].FinishReason = FinishReasonMaxTokens

====
